---- MODULE Spec2Model ----
(***************************************************************************)
(* State-machine model of the Tetris engine in src/tetris.py: the shape    *)
(* catalog, Piece.get_cells, create_grid, valid_space, lock_piece,         *)
(* clear_rows, check_lost, get_new_piece, try_rotate_with_kicks and the    *)
(* frame loop of main().                                                   *)
(*                                                                         *)
(* A colour is never BLACK (COLOR_I .. COLOR_L, lines 32-38), so a dense    *)
(* grid is modelled by the set of its non-BLACK coordinates and the        *)
(* locked dict by the set of its keys.  Times are in microseconds.  The    *)
(* clock value dt of a frame is an input of the environment: whether the   *)
(* fall timer has elapsed and whether the key cooldown allows input in a   *)
(* frame is therefore a choice of the environment.                         *)
(***************************************************************************)
EXTENDS Integers, Sequences, FiniteSets, TLC

GRID_WIDTH == 10
GRID_HEIGHT == 20

(* ------------------------------ bounds ------------------------------- *)
\* pieces locked in one explored run
MaxLocks == 1

(* --------------------------- shape catalog --------------------------- *)
I ==
  << << <<0, 0>>, <<-1, 0>>, <<1, 0>>, <<2, 0>> >>,
     << <<0, 0>>, <<0, -1>>, <<0, 1>>, <<0, 2>> >>,
     << <<0, 0>>, <<-1, 0>>, <<1, 0>>, <<2, 0>> >>,
     << <<0, 0>>, <<0, -1>>, <<0, 1>>, <<0, 2>> >> >>

O ==
  << << <<0, 0>>, <<1, 0>>, <<0, 1>>, <<1, 1>> >>,
     << <<0, 0>>, <<1, 0>>, <<0, 1>>, <<1, 1>> >>,
     << <<0, 0>>, <<1, 0>>, <<0, 1>>, <<1, 1>> >>,
     << <<0, 0>>, <<1, 0>>, <<0, 1>>, <<1, 1>> >> >>

\* the T table with an offset of its second rotation state written twice
TRepeatedOffset ==
  << << <<0, 0>>, <<-1, 0>>, <<1, 0>>, <<0, -1>> >>,
     << <<0, 0>>, <<0, -1>>, <<0, -1>>, <<1, 0>> >>,
     << <<0, 0>>, <<-1, 0>>, <<1, 0>>, <<0, 1>> >>,
     << <<0, 0>>, <<0, -1>>, <<0, 1>>, <<-1, 0>> >> >>

T ==
  << << <<0, 0>>, <<-1, 0>>, <<1, 0>>, <<0, -1>> >>,
     << <<0, 0>>, <<0, -1>>, <<0, 1>>, <<1, 0>> >>,
     << <<0, 0>>, <<-1, 0>>, <<1, 0>>, <<0, 1>> >>,
     << <<0, 0>>, <<0, -1>>, <<0, 1>>, <<-1, 0>> >> >>

S ==
  << << <<0, 0>>, <<-1, 0>>, <<0, -1>>, <<1, -1>> >>,
     << <<0, 0>>, <<0, -1>>, <<1, 0>>, <<1, 1>> >>,
     << <<0, 0>>, <<-1, 0>>, <<0, -1>>, <<1, -1>> >>,
     << <<0, 0>>, <<0, -1>>, <<1, 0>>, <<1, 1>> >> >>

Z ==
  << << <<0, 0>>, <<1, 0>>, <<0, -1>>, <<-1, -1>> >>,
     << <<0, 0>>, <<0, -1>>, <<-1, 0>>, <<-1, 1>> >>,
     << <<0, 0>>, <<1, 0>>, <<0, -1>>, <<-1, -1>> >>,
     << <<0, 0>>, <<0, -1>>, <<-1, 0>>, <<-1, 1>> >> >>

J ==
  << << <<0, 0>>, <<-1, 0>>, <<1, 0>>, <<-1, -1>> >>,
     << <<0, 0>>, <<0, -1>>, <<0, 1>>, <<1, -1>> >>,
     << <<0, 0>>, <<-1, 0>>, <<1, 0>>, <<1, 1>> >>,
     << <<0, 0>>, <<0, -1>>, <<0, 1>>, <<-1, 1>> >> >>

L ==
  << << <<0, 0>>, <<-1, 0>>, <<1, 0>>, <<1, -1>> >>,
     << <<0, 0>>, <<0, -1>>, <<0, 1>>, <<1, 1>> >>,
     << <<0, 0>>, <<-1, 0>>, <<1, 0>>, <<-1, 1>> >>,
     << <<0, 0>>, <<0, -1>>, <<0, 1>>, <<-1, -1>> >> >>

\* SHAPES[shape_index + 1][rotation + 1]: sequences are 1-based
SHAPES == << I, O, T, S, Z, J, L >>

ShapeIndexes == 0 .. (Len(SHAPES) - 1)

(* ------------------------------- Piece ------------------------------- *)
\* Piece.__init__: rotation starts at 0; shape and color follow shape_index
Piece(x, y, shape_index) ==
  [x |-> x, y |-> y, shape_index |-> shape_index, rotation |-> 0]

\* Piece.get_cells: the 4 absolute positions, in the order of the offsets
GetCells(piece) ==
  LET offsets == SHAPES[piece.shape_index + 1][(piece.rotation % 4) + 1]
  IN  [i \in 1 .. Len(offsets) |->
         <<piece.x + offsets[i][1], piece.y + offsets[i][2]>>]

\* the cells of get_cells as a set
CellSet(piece) ==
  LET cells == GetCells(piece) IN {cells[i] : i \in DOMAIN cells}

(* --------------------------- grid helpers ---------------------------- *)
\* create_grid: the coordinates of the dense grid that are not BLACK
CreateGrid(locked) ==
  {k \in locked : 0 <= k[2] /\ k[2] < GRID_HEIGHT /\ 0 <= k[1] /\ k[1] < GRID_WIDTH}

\* the list `accepted` of valid_space: the BLACK coordinates of the grid
Accepted(grid) ==
  {p \in (0 .. (GRID_WIDTH - 1)) \X (0 .. (GRID_HEIGHT - 1)) : p \notin grid}

\* valid_space with a top bound: a cell above row 0 is rejected
ValidSpaceTopBound(piece, grid) ==
  \A c \in CellSet(piece) :
    /\ ~(c[1] < 0 \/ c[1] >= GRID_WIDTH \/ c[2] >= GRID_HEIGHT \/ c[2] < 0)
    /\ c \in Accepted(grid)

\* valid_space: the loop returns False at the first cell (x, y) = c that
\* fails a test, True when no cell does
ValidSpace(piece, grid) ==
  \A c \in CellSet(piece) :
    /\ ~(c[1] < 0 \/ c[1] >= GRID_WIDTH \/ c[2] >= GRID_HEIGHT)
    /\ ~(c[2] >= 0 /\ c \notin Accepted(grid))

\* lock_piece: every cell of the piece becomes a key of locked
LockPiece(piece, locked) == locked \cup CellSet(piece)

\* the shift counted over the cleared rows above the key: y > row
ShiftRowsAbove(y, rows_to_clear) == Cardinality({row \in rows_to_clear : y > row})

\* the shift of a remaining key: sum(1 for row in rows_to_clear if y < row)
Shift(y, rows_to_clear) == Cardinality({row \in rows_to_clear : y < row})

\* the y values in the order of sorted(..., key=p[1]) without reverse=True:
\* ascending
RECURSIVE SortedRowsAscending(_)
SortedRowsAscending(ys) ==
  IF ys = {} THEN << >>
  ELSE LET low == CHOOSE y \in ys : \A o \in ys : y <= o
       IN  <<low>> \o SortedRowsAscending(ys \ {low})

\* the y values of the keys in the order of sorted(..., key=p[1],
\* reverse=True): descending
RECURSIVE SortedRows(_)
SortedRows(ys) ==
  IF ys = {} THEN << >>
  ELSE LET top == CHOOSE y \in ys : \A o \in ys : o <= y
       IN  <<top>> \o SortedRows(ys \ {top})

\* the loop of lines 165-171 over the snapshot `keys` of the keys, one y
\* value of the sorted order per step: the keys of one y have the same
\* shift and different x, so each is popped and re-inserted at y + shift
RECURSIVE MoveRows(_, _, _, _)
MoveRows(ys, keys, locked, rows_to_clear) ==
  IF ys = << >> THEN locked
  ELSE LET y == Head(ys)
           shift == Shift(y, rows_to_clear)
           popped == {k \in keys : k[2] = y}
       IN  IF shift > 0
           THEN MoveRows(Tail(ys), keys,
                         (locked \ popped) \cup {<<k[1], k[2] + shift>> : k \in popped},
                         rows_to_clear)
           ELSE MoveRows(Tail(ys), keys, locked, rows_to_clear)

\* rows_to_clear that takes a row with any colored cell
RowsToClearAnyCell(grid) ==
  {y \in 0 .. (GRID_HEIGHT - 1) :
     \E x \in 0 .. (GRID_WIDTH - 1) : <<x, y>> \in grid}

\* rows_to_clear that scans range(GRID_HEIGHT - 1): the bottom row is left out
RowsToClearSkipBottom(grid) ==
  {y \in 0 .. (GRID_HEIGHT - 2) :
     \A x \in 0 .. (GRID_WIDTH - 1) : <<x, y>> \in grid}

\* rows_to_clear: the rows of the grid without a BLACK cell
RowsToClear(grid) ==
  {y \in 0 .. (GRID_HEIGHT - 1) :
     \A x \in 0 .. (GRID_WIDTH - 1) : <<x, y>> \in grid}

\* clear_rows that deletes the completed rows and moves nothing
ClearRowsNoMove(grid, locked) ==
  LET rows_to_clear == RowsToClear(grid)
  IN  [ret |-> Cardinality(rows_to_clear),
       locked |-> {k \in locked : k[2] \notin rows_to_clear}]

\* clear_rows: the returned count and the locked dict after the call
ClearRows(grid, locked) ==
  LET rows_to_clear == RowsToClear(grid)
      deleted == {k \in locked : ~(k[2] \in rows_to_clear /\ k[1] \in 0 .. (GRID_WIDTH - 1))}
  IN  IF rows_to_clear = {}
      THEN [ret |-> 0, locked |-> locked]
      ELSE [ret |-> Cardinality(rows_to_clear),
            locked |-> MoveRows(SortedRows({k[2] : k \in deleted}), deleted, deleted,
                               rows_to_clear)]

\* check_lost that looks only above the grid: y < 0
CheckLostAboveGrid(locked) == \E k \in locked : k[2] < 0

\* check_lost
CheckLost(locked) == \E k \in locked : k[2] < 1

\* get_new_piece for the drawn index idx
GetNewPiece(idx) == Piece(GRID_WIDTH \div 2, 0, idx)

(* ------------------------- rotation with kicks ----------------------- *)
\* the kick list with the left kick tried first
kicksLeftFirst == <<-1, 1, -2, 2>>

kicks == <<1, -1, 2, -2>>

\* the kick loop without the revert of line 278
RECURSIVE KickLoopNoRevert(_, _, _, _)
KickLoopNoRevert(piece, grid, prev_rot, i) ==
  IF i > Len(kicks)
  THEN [ok |-> FALSE, piece |-> piece]
  ELSE LET kicked == [piece EXCEPT !.x = piece.x + kicks[i]]
       IN  IF ValidSpace(kicked, grid)
           THEN [ok |-> TRUE, piece |-> kicked]
           ELSE KickLoopNoRevert(piece, grid, prev_rot, i + 1)

\* the for loop of try_rotate_with_kicks from kick number i on; piece has
\* the new rotation and the x before the kicks
RECURSIVE KickLoop(_, _, _, _)
KickLoop(piece, grid, prev_rot, i) ==
  IF i > Len(kicks)
  THEN [ok |-> FALSE, piece |-> [piece EXCEPT !.rotation = prev_rot]]
  ELSE LET kicked == [piece EXCEPT !.x = piece.x + kicks[i]]
       IN  IF ValidSpace(kicked, grid)
           THEN [ok |-> TRUE, piece |-> kicked]
           ELSE KickLoop(piece, grid, prev_rot, i + 1)

\* try_rotate_with_kicks without the modulo of line 264
TryRotateNoModulo(piece, grid) ==
  LET rotated == [piece EXCEPT !.rotation = piece.rotation + 1]
  IN  IF ValidSpace(rotated, grid)
      THEN [ok |-> TRUE, piece |-> rotated]
      ELSE KickLoop(rotated, grid, piece.rotation, 1)

\* try_rotate_with_kicks: the returned flag and the piece after the call
TryRotateWithKicks(piece, grid) ==
  LET rotated == [piece EXCEPT !.rotation = (piece.rotation + 1) % 4]
  IN  IF ValidSpace(rotated, grid)
      THEN [ok |-> TRUE, piece |-> rotated]
      ELSE KickLoop(rotated, grid, piece.rotation, 1)

(* ------------------------------ session ------------------------------ *)
InitialFallSpeed == 500000
MinFallSpeed == 80000

\* the speed-up without the floor: fall_speed * 0.995
SpeedUpNoFloor(fall_speed) == (fall_speed * 995) \div 1000

\* fall_speed = max(0.08, fall_speed * 0.995)
SpeedUp(fall_speed) ==
  LET faster == (fall_speed * 995) \div 1000
  IN  IF faster > MinFallSpeed THEN faster ELSE MinFallSpeed

\* the score table with the last branch testing cleared > 4
AwardStrictFour(cleared) ==
  IF cleared = 1 THEN 100
  ELSE IF cleared = 2 THEN 300
  ELSE IF cleared = 3 THEN 500
  ELSE IF cleared > 4 THEN 800
  ELSE 0

\* the score added for a number of cleared rows (lines 379-386)
Award(cleared) ==
  IF cleared = 1 THEN 100
  ELSE IF cleared = 2 THEN 300
  ELSE IF cleared = 3 THEN 500
  ELSE IF cleared >= 4 THEN 800
  ELSE 0

VARIABLES
  locked_positions,  \* the keys of the locked dict
  current_piece,
  next_piece,
  change_piece,
  run,
  score,
  fall_speed,
  pc,                \* the next point of main() / game_over() to execute
  nlocks,            \* pieces locked so far in this run (bounds the run)
  ticks              \* gravity steps the current piece has taken while no
                     \* key acted on it; -1 from the first key on

vars == <<locked_positions, current_piece, next_piece, change_piece, run,
          score, fall_speed, pc, nlocks, ticks>>

\* the points of one iteration of the loop of main(), in program order
LoopPoints == <<"gravity", "events", "left", "right", "down", "up", "space", "land">>

Rank(p) == CHOOSE i \in DOMAIN LoopPoints : LoopPoints[i] = p

\* Control can be taken to point p: the loop runs and every step between pc
\* and p is one whose condition is false in this frame (timer not elapsed,
\* no event queued, key not pressed or cooldown not over).  A run is
\* followed for MaxLocks locks, and further as long as its board has a cell
\* above row 1.
At(p) ==
  /\ run
  /\ nlocks < MaxLocks \/ \E k \in locked_positions : k[2] < 1
  /\ pc \in {LoopPoints[i] : i \in DOMAIN LoopPoints}
  /\ Rank(pc) <= Rank(p)

\* main() up to the loop, lines 292-303
Start(cur, nxt) ==
  /\ locked_positions = {}
  /\ current_piece = GetNewPiece(cur)
  /\ next_piece = GetNewPiece(nxt)
  /\ change_piece = FALSE
  /\ run = TRUE
  /\ score = 0
  /\ fall_speed = InitialFallSpeed
  /\ pc = "gravity"

(* States of a running session that the loop of main() reaches from Start.   *)
(* Each is given by the pieces locked so far, every one locked where it     *)
(* rests, none with a cell above row 1 and no row completed unless stated.  *)
Block(xs, ys) == {<<x, y>> : x \in xs, y \in ys}

\* the loop is at its top with the given board, pieces, score and fall_speed
Running(locked, curs, nxts, sc, speed) ==
  /\ locked_positions = locked
  /\ \E cur \in curs : current_piece = GetNewPiece(cur)
  /\ \E nxt \in nxts : next_piece = GetNewPiece(nxt)
  /\ change_piece = FALSE
  /\ run = TRUE
  /\ score = sc
  /\ fall_speed = speed
  /\ pc = "gravity"

\* Five O pieces dropped side by side fill rows 18 and 19: both rows are
\* cleared by the fifth lock, the board is empty again and the score is 300.
\* On top of that, 2k horizontal I pieces fill columns 1..8 of the k bottom
\* rows and a vertical I piece stands in column 9; column 0 is an open well.
WellBoard(k) ==
  Block(1 .. 8, (GRID_HEIGHT - k) .. (GRID_HEIGHT - 1))
    \cup Block({9}, (GRID_HEIGHT - 4) .. (GRID_HEIGHT - 1))

\* fall_speed after the 5 + 2k + 1 locks: SpeedUp applied 8, 10, 12, 14 times
WellSpeed(k) == <<480343, 475551, 470807, 466109>>[k]

WellStart ==
  \E k \in 1 .. 4 : Running(WellBoard(k), {0}, {1}, 300, WellSpeed(k))

\* An I piece and an O piece hard-dropped in the spawn column.
TrapBoard == Block(4 .. 7, {19}) \cup Block({5, 6}, {17, 18})

\* fall_speed after 2 locks
TrapStart == Running(TrapBoard, {6}, {2}, 0, SpeedUp(SpeedUp(InitialFallSpeed)))

\* Four vertical I pieces stacked in column 5 and an L piece (rotation 1,
\* pivot (5, 2)) on top of them: the stack ends in row 1.
TowerBoard == Block({5}, 4 .. 19) \cup {<<5, 1>>, <<5, 2>>, <<5, 3>>, <<6, 3>>}

\* fall_speed after 5 locks
TowerStart == Running(TowerBoard, {0, 1, 2}, {3}, 0, 487622)

\* Rows 4..19 filled by 36 vertical I pieces in every column but column 1;
\* on top an O piece at (0, 2), a horizontal I piece in row 3 (columns 2..5)
\* and a J piece (rotation 0, pivot (7, 3)): row 3 lacks only column 9.
HighBoard ==
  Block((0 .. 9) \ {1}, 4 .. 19)
    \cup Block({0, 1}, {2, 3})
    \cup Block(2 .. 5, {3})
    \cup {<<6, 3>>, <<7, 3>>, <<8, 3>>, <<6, 2>>}

\* fall_speed after 39 locks
HighStart == Running(HighBoard, ShapeIndexes, {0, 4}, 0, 411200)

\* Five O pieces dropped side by side 73 times over: the board is empty
\* after each round, the score is 73 * 300 and SpeedUp was applied 365
\* times, which leaves fall_speed one lock above the floor.
FloorStart == Running({}, {1}, {0}, 21900, 80161)

Init ==
  /\ \/ \E cur \in ShapeIndexes, nxt \in ShapeIndexes : Start(cur, nxt)
     \/ WellStart
     \/ TrapStart
     \/ TowerStart
     \/ HighStart
     \/ FloorStart
  /\ nlocks = 0
  /\ ticks = 0

\* the gravity step that marks the lock as soon as the moved piece touches
\* what is below it
GravityLockOnContact ==
  /\ At("gravity")
  /\ LET down == [current_piece EXCEPT !.y = current_piece.y + 1]
         below == [current_piece EXCEPT !.y = current_piece.y + 2]
     IN  IF ValidSpace(down, CreateGrid(locked_positions))
         THEN /\ current_piece' = down
              /\ change_piece' = (change_piece \/ ~ValidSpace(below, CreateGrid(locked_positions)))
         ELSE change_piece' = TRUE /\ UNCHANGED current_piece
  /\ pc' = "events"
  /\ ticks' = IF ticks >= 0 THEN ticks + 1 ELSE ticks
  /\ UNCHANGED <<locked_positions, next_piece, run, score, fall_speed, nlocks>>

\* lines 311-317: the fall timer has elapsed
Gravity ==
  /\ At("gravity")
  /\ LET down == [current_piece EXCEPT !.y = current_piece.y + 1]
     IN  IF ValidSpace(down, CreateGrid(locked_positions))
         THEN current_piece' = down /\ UNCHANGED change_piece
         ELSE change_piece' = TRUE /\ UNCHANGED current_piece
  /\ pc' = "events"
  /\ ticks' = IF ticks >= 0 THEN ticks + 1 ELSE ticks
  /\ UNCHANGED <<locked_positions, next_piece, run, score, fall_speed, nlocks>>

\* lines 320-329: a QUIT event or the Escape key ends the process
Quit ==
  /\ At("events")
  /\ run' = FALSE
  /\ pc' = "exit"
  /\ UNCHANGED <<locked_positions, current_piece, next_piece, change_piece,
                 score, fall_speed, nlocks, ticks>>

\* a translation by (dx, dy) that is reverted when the placement is invalid
Translate(piece, dx, dy, locked) ==
  LET moved == [piece EXCEPT !.x = piece.x + dx, !.y = piece.y + dy]
  IN  IF ValidSpace(moved, CreateGrid(locked)) THEN moved ELSE piece

\* lines 334-339
KeyLeft ==
  /\ At("left")
  /\ current_piece' = Translate(current_piece, -1, 0, locked_positions)
  /\ pc' = "right"
  /\ ticks' = -1
  /\ UNCHANGED <<locked_positions, next_piece, change_piece, run, score,
                 fall_speed, nlocks>>

\* lines 340-345
KeyRight ==
  /\ At("right")
  /\ current_piece' = Translate(current_piece, 1, 0, locked_positions)
  /\ pc' = "down"
  /\ ticks' = -1
  /\ UNCHANGED <<locked_positions, next_piece, change_piece, run, score,
                 fall_speed, nlocks>>

\* lines 346-351
KeyDown ==
  /\ At("down")
  /\ current_piece' = Translate(current_piece, 0, 1, locked_positions)
  /\ pc' = "up"
  /\ ticks' = -1
  /\ UNCHANGED <<locked_positions, next_piece, change_piece, run, score,
                 fall_speed, nlocks>>

\* lines 352-354
KeyUp ==
  /\ At("up")
  /\ current_piece' =
       TryRotateWithKicks(current_piece, CreateGrid(locked_positions)).piece
  /\ pc' = "space"
  /\ ticks' = -1
  /\ UNCHANGED <<locked_positions, next_piece, change_piece, run, score,
                 fall_speed, nlocks>>

\* the while loop of the hard drop, line 357-358
RECURSIVE DropLoop(_, _)
DropLoop(piece, locked) ==
  IF ValidSpace(piece, CreateGrid(locked))
  THEN DropLoop([piece EXCEPT !.y = piece.y + 1], locked)
  ELSE piece

\* the hard drop without the step back of line 359
HardDropNoStepBack(piece, locked) == DropLoop(piece, locked)

\* lines 357-359
HardDrop(piece, locked) ==
  LET stopped == DropLoop(piece, locked)
  IN  [stopped EXCEPT !.y = stopped.y - 1]

\* lines 355-361
KeySpace ==
  /\ At("space")
  /\ current_piece' = HardDrop(current_piece, locked_positions)
  /\ change_piece' = TRUE
  /\ pc' = "land"
  /\ ticks' = -1
  /\ UNCHANGED <<locked_positions, next_piece, run, score, fall_speed, nlocks>>

\* lines 366-370: the grid that is drawn, with the cells of the current piece
DrawnGrid(piece, locked) ==
  CreateGrid(locked) \cup
    {c \in CellSet(piece) :
       c[2] >= 0 /\ 0 <= c[1] /\ c[1] < GRID_WIDTH /\ 0 <= c[2] /\ c[2] < GRID_HEIGHT}

\* lines 363-376 when change_piece is False: the frame ends
EndFrame ==
  /\ At("land")
  /\ ~change_piece
  /\ pc' = "gravity"
  /\ UNCHANGED <<locked_positions, current_piece, next_piece, change_piece,
                 run, score, fall_speed, nlocks, ticks>>

\* the landing without the loss check of lines 395-396
LandNoLossCheck ==
  /\ At("land")
  /\ change_piece
  /\ LET grid == DrawnGrid(current_piece, locked_positions)
         res == ClearRows(grid, LockPiece(current_piece, locked_positions))
     IN  /\ locked_positions' = res.locked
         /\ score' = score + Award(res.ret)
         /\ run' = run
         /\ pc' = "gravity"
  /\ current_piece' = next_piece
  /\ \E idx \in ShapeIndexes : next_piece' = GetNewPiece(idx)
  /\ change_piece' = FALSE
  /\ fall_speed' = SpeedUp(fall_speed)
  /\ nlocks' = nlocks + 1
  /\ ticks' = 0

\* lines 366-396 when change_piece is True: the piece has landed
Land ==
  /\ At("land")
  /\ change_piece
  /\ LET grid == DrawnGrid(current_piece, locked_positions)
         res == ClearRows(grid, LockPiece(current_piece, locked_positions))
     IN  /\ locked_positions' = res.locked
         /\ score' = score + Award(res.ret)
         /\ run' = ~CheckLost(res.locked)
         /\ pc' = IF CheckLost(res.locked) THEN "game_over" ELSE "gravity"
  /\ current_piece' = next_piece
  /\ \E idx \in ShapeIndexes : next_piece' = GetNewPiece(idx)
  /\ change_piece' = FALSE
  /\ fall_speed' = SpeedUp(fall_speed)
  /\ nlocks' = nlocks + 1
  /\ ticks' = 0

\* game_over(), lines 425-428: Enter starts main() again
Restart ==
  /\ pc = "game_over"
  /\ \E cur \in ShapeIndexes, nxt \in ShapeIndexes :
       /\ locked_positions' = {}
       /\ current_piece' = GetNewPiece(cur)
       /\ next_piece' = GetNewPiece(nxt)
  /\ change_piece' = FALSE
  /\ run' = TRUE
  /\ score' = 0
  /\ fall_speed' = InitialFallSpeed
  /\ pc' = "gravity"
  /\ nlocks' = 0
  /\ ticks' = 0

\* game_over(), lines 421-424 and 429-432: QUIT or Escape ends the process
QuitGameOver ==
  /\ pc = "game_over"
  /\ pc' = "exit"
  /\ UNCHANGED <<locked_positions, current_piece, next_piece, change_piece,
                 run, score, fall_speed, nlocks, ticks>>

Next ==
  \/ Gravity
  \/ Quit
  \/ KeyLeft
  \/ KeyRight
  \/ KeyDown
  \/ KeyUp
  \/ KeySpace
  \/ EndFrame
  \/ Land
  \/ Restart
  \/ QuitGameOver

Spec == Init /\ [][Next]_vars

(* ============================== claims =============================== *)
\* the pieces valid_space is asked about from the current state: the
\* current piece (hard drop), the piece one column left or right or one row
\* down, and the next rotation at the column offsets 0, +1, -1, +2, -2
Candidates ==
  {[current_piece EXCEPT !.x = current_piece.x + d[1],
                         !.y = current_piece.y + d[2]] :
     d \in {<<0, 0>>, <<-1, 0>>, <<1, 0>>, <<0, 1>>}}
  \cup
  {[current_piece EXCEPT !.x = current_piece.x + dx,
                         !.rotation = (current_piece.rotation + 1) % 4] :
     dx \in -2 .. 2}

\* every cell is inside columns 0..9, above row 20 and, from row 0 on, not
\* a locked cell
PlacementOk(piece, locked) ==
  \A c \in CellSet(piece) :
    /\ 0 <= c[1] /\ c[1] < 10
    /\ c[2] < 20
    /\ (c[2] >= 0 => c \notin locked)

\* C1: valid_space returns true exactly when each of the 4 cells has
\* 0 <= x < 10 and y < 20 and, when y >= 0, an empty board cell; a cell with
\* y < 0 does not make it false
C1_ValidSpaceExact ==
  \A p \in Candidates :
    ValidSpace(p, CreateGrid(locked_positions)) <=> PlacementOk(p, locked_positions)

\* C1 witness: one candidate with a cell above row 0 is valid, another with
\* a cell left of column 0 and no cell on a locked cell is invalid
C1_Witness ==
  /\ \E p \in Candidates :
       /\ ValidSpace(p, CreateGrid(locked_positions))
       /\ \E c \in CellSet(p) : c[2] < 0
  /\ \E q \in Candidates :
       /\ ~ValidSpace(q, CreateGrid(locked_positions))
       /\ \E c \in CellSet(q) : c[1] < 0
       /\ CellSet(q) \cap locked_positions = {}

Landing == change_piece /\ At("land")

\* the locked map as clear_rows receives it, and its completely filled rows
LockedAtClear == locked_positions \cup CellSet(current_piece)

FilledRows(locked) ==
  {y \in 0 .. 19 : \A x \in 0 .. 9 : <<x, y>> \in locked}

ClearResult ==
  ClearRows(DrawnGrid(current_piece, locked_positions),
            LockPiece(current_piece, locked_positions))

\* C3: clear_rows returns the number of completely filled rows, removes
\* their cells and moves every other cell (x, y) to (x, y + k), k the
\* number of filled rows with index greater than y
C3_ClearRowsResult ==
  Landing =>
    \A filled \in {FilledRows(LockedAtClear)} :
      /\ ClearResult.ret = Cardinality(filled)
      /\ ClearResult.locked =
           {<<k[1], k[2] + Cardinality({r \in filled : r > k[2]})>> :
              k \in {c \in LockedAtClear : c[2] \notin filled}}

\* C3 witness: a lock completes a row with locked cells above it, which
\* move, and locked cells below it, which stay
C3_Witness ==
  /\ Landing
  /\ \E r \in FilledRows(LockedAtClear) :
       /\ \E k \in LockedAtClear : k[2] < r /\ k[2] \notin FilledRows(LockedAtClear)
       /\ \E k \in LockedAtClear : k[2] > r /\ k[2] \notin FilledRows(LockedAtClear)

\* C4 as stated: a remaining cell (x, y) is re-inserted at (x, y + shift),
\* shift the number of cleared rows whose index is less than y
C4_ShiftByRowsAbove ==
  Landing =>
    \A filled \in {FilledRows(LockedAtClear)}, after \in {ClearResult.locked} :
      \A k \in LockedAtClear :
        k[2] \notin filled =>
          <<k[1], k[2] + Cardinality({r \in filled : r < k[2]})>> \in after

\* C4 amended: a remaining cell (x, y) is re-inserted at (x, y + shift),
\* shift the number of cleared rows whose index is greater than y
C4_ShiftByRowsBelow ==
  Landing =>
    \A filled \in {FilledRows(LockedAtClear)}, after \in {ClearResult.locked} :
      \A k \in LockedAtClear :
        k[2] \notin filled =>
          /\ Shift(k[2], filled) = Cardinality({r \in filled : k[2] < r})
          /\ <<k[1], k[2] + Cardinality({r \in filled : k[2] < r})>> \in after

\* C4 witness: a lock clears two rows or more and a cell above them remains
C4_Witness ==
  /\ Landing
  /\ Cardinality(FilledRows(LockedAtClear)) >= 2
  /\ \E k \in LockedAtClear :
       \A r \in FilledRows(LockedAtClear) : k[2] < r

\* a step of Land and a step of Restart
LockStep == nlocks' = nlocks + 1

RestartStep == pc = "game_over" /\ pc' = "gravity"

\* C5: a lock adds 0, 100, 300, 500 or 800 to the score for 0, 1, 2, 3 or 4
\* cleared rows, no other step of a session changes the score, a session
\* starts with score 0 and the score never decreases
C5_ScoreSteps ==
  [][/\ LockStep =>
          score' = score + <<0, 100, 300, 500, 800>>[Cardinality(FilledRows(LockedAtClear)) + 1]
     /\ RestartStep => score' = 0
     /\ (~LockStep /\ ~RestartStep) => score' = score
     /\ ~RestartStep => score' >= score]_vars

\* C5 witness: a lock that cleared four rows added 800 to a score of 300
C5_Witness == nlocks = 1 /\ score = 1100 /\ locked_positions = {}

\* the current piece in the next rotation, d columns aside, and whether it
\* is a valid placement there
RotatedAt(d) ==
  [current_piece EXCEPT !.rotation = (current_piece.rotation + 1) % 4,
                        !.x = current_piece.x + d]

FitsAt(d) == PlacementOk(RotatedAt(d), locked_positions)

Offsets == <<0, 1, -1, 2, -2>>

\* the steps of KeyLeft, KeyRight, KeyDown and KeyUp
LeftStep == pc' = "right"

RightStep == pc' = "down"

DownStep == pc' = "up"

UpStep == pc' = "space"

\* C6: a rotate attempt commits the next rotation at the first column
\* offset, in the order 0, +1, -1, +2, -2, at which the placement is valid,
\* and never changes pivotY
C6_FirstMatchKick ==
  [][UpStep =>
       /\ current_piece'.y = current_piece.y
       /\ \A i \in DOMAIN Offsets :
            (FitsAt(Offsets[i]) /\ \A j \in 1 .. (i - 1) : ~FitsAt(Offsets[j]))
              => current_piece' = RotatedAt(Offsets[i])]_vars

\* the piece from which a rotate attempt with column offset d ends in the
\* current piece
Before(d) ==
  [current_piece EXCEPT !.rotation = (current_piece.rotation + 3) % 4,
                        !.x = current_piece.x - d]

\* C6 witness: a rotate attempt has acted; one column to the left, in the
\* previous rotation, the piece is a valid placement from which offset 0 is
\* invalid and both +1 and -1 are valid, and the piece cannot have been in
\* the current column before
C6_Witness ==
  /\ pc = "space"
  /\ PlacementOk(current_piece, locked_positions)
  /\ PlacementOk(Before(1), locked_positions)
  /\ ~PlacementOk([current_piece EXCEPT !.x = current_piece.x - 1], locked_positions)
  /\ PlacementOk([current_piece EXCEPT !.x = current_piece.x - 2], locked_positions)
  /\ ~PlacementOk(Before(0), locked_positions)
  /\ TryRotateWithKicks(current_piece, CreateGrid(locked_positions)).ok

\* the current piece moved by (dx, dy) is not a valid placement
Blocked(dx, dy) ==
  ~PlacementOk([current_piece EXCEPT !.x = current_piece.x + dx,
                                     !.y = current_piece.y + dy],
               locked_positions)

\* C7: a rotate attempt that is invalid at offset 0 and at the four kicks,
\* and a left, right or down move into an invalid placement, leave the
\* piece, the board and the score as they were
C7_FailedMoveNoChange ==
  [][(\/ LeftStep /\ Blocked(-1, 0)
      \/ RightStep /\ Blocked(1, 0)
      \/ DownStep /\ Blocked(0, 1)
      \/ UpStep /\ \A i \in DOMAIN Offsets : ~FitsAt(Offsets[i]))
     => /\ current_piece' = current_piece
        /\ locked_positions' = locked_positions
        /\ score' = score]_vars

\* C7 witness: a rotate attempt has acted on an I piece that lies in the
\* bottom row in rotation 0, where no vertical placement is valid
C7_Witness ==
  /\ pc = "space"
  /\ current_piece.shape_index = 0
  /\ current_piece.rotation = 0
  /\ current_piece.y = 19

\* four consecutive rotate attempts from the current state: the results
\* <<r1, r2, r3, r4>> of try_rotate_with_kicks, each applied to the piece
\* the one before left
FourAttempts ==
  LET Rot(piece) == TryRotateWithKicks(piece, CreateGrid(locked_positions))
  IN  UNION {UNION {UNION {{<<r1, r2, r3, r4>> : r4 \in {Rot(r3.piece)}} :
                             r3 \in {Rot(r2.piece)}} :
                      r2 \in {Rot(r1.piece)}} :
               r1 \in {Rot(current_piece)}}

Successes(a) == Cardinality({i \in 1 .. 4 : a[i].ok})

NoKick(a) ==
  /\ a[1].piece.x = current_piece.x
  /\ \A i \in 2 .. 4 : a[i].piece.x = a[i - 1].piece.x

\* C8 as stated: four consecutive rotate attempts return the piece to its
\* rotation index and, when no attempt applied a kick, to its pivot
C8_FourRotations ==
  At("up") =>
    \A a \in FourAttempts :
      /\ a[4].piece.rotation = current_piece.rotation
      /\ NoKick(a) =>
           (a[4].piece.x = current_piece.x /\ a[4].piece.y = current_piece.y)

\* C8 amended: each successful attempt advances the rotation index by one
\* modulo 4 and a failed one leaves it, so four attempts return the piece
\* to its rotation index when all four succeed or none does; pivotY is
\* unchanged, and pivotX too when no attempt applied a kick
C8_FourRotationsSucceeding ==
  At("up") =>
    \A a \in FourAttempts :
      /\ a[4].piece.rotation = (current_piece.rotation + Successes(a)) % 4
      /\ Successes(a) \in {0, 4} => a[4].piece.rotation = current_piece.rotation
      /\ a[4].piece.y = current_piece.y
      /\ NoKick(a) => a[4].piece.x = current_piece.x

\* C8 witness: a T, J or L piece away from the spawn row for which all four
\* attempts succeed, one of them with a kick
C8_Witness ==
  /\ At("up")
  /\ current_piece.shape_index \in {2, 5, 6}
  /\ current_piece.y > 0
  /\ \E a \in FourAttempts : Successes(a) = 4 /\ ~NoKick(a)

\* C9: after a lock resolution the session is lost exactly when the board
\* left by the row clear has a cell with y < 1
C9_LostIffTopCell ==
  [][LockStep =>
       /\ (pc' = "game_over") <=> (\E k \in locked_positions' : k[2] < 1)
       /\ run' <=> (\A k \in locked_positions' : k[2] >= 1)]_vars

\* C9 witness: on HighBoard a vertical I piece was locked in column 9 with
\* a cell in row 0; row 3 was cleared, the cell moved to row 1 and the loop
\* still runs
C9_Witness ==
  /\ nlocks = 1
  /\ run
  /\ pc = "gravity"
  /\ locked_positions =
       {k \in HighBoard : k[2] >= 4}
         \cup {<<0, 3>>, <<1, 3>>, <<6, 3>>, <<9, 1>>, <<9, 2>>, <<9, 3>>}

\* C10: once the board has a cell with y < 1 the session is lost: no step
\* but a restart changes the board, the pieces, the score or the fall
\* speed, and run stays False; the loop of a session ends, short of the
\* process being quit, only with such a board
C10_GameOverTerminal ==
  [][/\ ((\E k \in locked_positions : k[2] < 1) /\ ~RestartStep) =>
          /\ ~run /\ ~run'
          /\ UNCHANGED <<locked_positions, current_piece, next_piece, score,
                         fall_speed>>
     /\ (run /\ ~run' /\ pc' # "exit") =>
          (pc' = "game_over" /\ \E k \in locked_positions' : k[2] < 1)]_vars

\* C10 witness: a step was taken in a lost session
C10_Witness == pc = "exit" /\ \E k \in locked_positions : k[2] < 1

\* the first piece of a session is an I piece that no key has acted on:
\* spawned at pivot (5, 0) in rotation 0 on the empty board, it has taken
\* `ticks` gravity steps
UnattendedI ==
  /\ run
  /\ nlocks = 0
  /\ locked_positions = {}
  /\ current_piece.shape_index = 0
  /\ ticks >= 0

BottomRowCells == {<<4, 19>>, <<5, 19>>, <<6, 19>>, <<7, 19>>}

\* C11 as stated: the unattended I piece is locked when it has received 19
\* gravity ticks, in cells (4,19) .. (7,19), and the session is not lost
C11_LockedBy19Ticks ==
  [][(LockStep /\ UnattendedI) =>
       /\ ticks = 19
       /\ locked_positions' = BottomRowCells
       /\ run']_vars

\* C11 amended: 19 gravity ticks take the unattended I piece from row 0 to
\* row 19, one row per tick, and leave it unlocked; the 20th tick marks the
\* lock, and the piece is locked in cells (4,19) .. (7,19) with the session
\* not lost
C11_LockedBy20Ticks ==
  [][/\ (UnattendedI /\ ~change_piece) =>
          /\ ticks <= 19
          /\ current_piece = [GetNewPiece(0) EXCEPT !.y = ticks]
     /\ (UnattendedI /\ change_piece) =>
          /\ ticks = 20
          /\ current_piece = [GetNewPiece(0) EXCEPT !.y = 19]
     /\ (LockStep /\ UnattendedI) =>
          /\ ticks = 20
          /\ locked_positions' = BottomRowCells
          /\ run' /\ pc' = "gravity"]_vars

\* C11 witness: the unattended I piece lies in the bottom row after its 20th
\* gravity tick, which marked the lock
C11_Witness ==
  /\ UnattendedI
  /\ change_piece
  /\ ticks = 20
  /\ CellSet(current_piece) = BottomRowCells
  /\ At("land")

\* the step of KeySpace
SpaceStep == pc' = "land"

\* the piece one row further down
OneDown(piece) == [piece EXCEPT !.y = piece.y + 1]

\* C12: a hard drop leaves pivotX and the rotation as they were and pivotY
\* not smaller than before, ends in a valid placement whose translation one
\* row down is invalid, and marks the lock in that tick
C12_HardDropRests ==
  [][SpaceStep =>
       /\ current_piece'.x = current_piece.x
       /\ current_piece'.rotation = current_piece.rotation
       /\ current_piece'.y >= current_piece.y
       /\ PlacementOk(current_piece', locked_positions)
       /\ ~PlacementOk(OneDown(current_piece'), locked_positions)
       /\ change_piece'
       /\ locked_positions' = locked_positions]_vars

\* the offsets of rotation state r of kind k as a set
OffsetSet(k, r) ==
  LET offsets == SHAPES[k + 1][r + 1] IN {offsets[i] : i \in DOMAIN offsets}

\* every rotation state of every kind is a sequence of 4 distinct offsets,
\* and get_cells yields 4 distinct coordinates for the pieces of the state
FourDistinctCells ==
  /\ \A k \in ShapeIndexes :
       /\ Len(SHAPES[k + 1]) = 4
       /\ \A r \in 0 .. 3 :
            Len(SHAPES[k + 1][r + 1]) = 4 /\ Cardinality(OffsetSet(k, r)) = 4
  /\ \A p \in Candidates \cup {next_piece} :
       Len(GetCells(p)) = 4 /\ Cardinality(CellSet(p)) = 4

\* C13 as stated: the four rotation states of O are identical, each of I, T,
\* S, Z, J, L has four pairwise distinct offset sets, and every rotation
\* state has exactly 4 distinct offsets
C13_CatalogAllDistinct ==
  /\ \A r \in 0 .. 3 : SHAPES[2][r + 1] = SHAPES[2][1]
  /\ \A k \in ShapeIndexes \ {1} :
       \A r1 \in 0 .. 3, r2 \in 0 .. 3 :
         r1 # r2 => OffsetSet(k, r1) # OffsetSet(k, r2)
  /\ FourDistinctCells

\* C13 amended: the four rotation states of O are identical; T, J and L have
\* four pairwise distinct offset sets; I, S and Z have two, rotation r + 2
\* being the same as rotation r and rotation 1 different from rotation 0;
\* every rotation state has exactly 4 distinct offsets
C13_CatalogDistinctStates ==
  /\ \A r \in 0 .. 3 : SHAPES[2][r + 1] = SHAPES[2][1]
  /\ \A k \in {2, 5, 6} :
       \A r1 \in 0 .. 3, r2 \in 0 .. 3 :
         r1 # r2 => OffsetSet(k, r1) # OffsetSet(k, r2)
  /\ \A k \in {0, 3, 4} :
       /\ SHAPES[k + 1][3] = SHAPES[k + 1][1]
       /\ SHAPES[k + 1][4] = SHAPES[k + 1][2]
       /\ OffsetSet(k, 1) # OffsetSet(k, 0)
  /\ FourDistinctCells

\* C13 witness: an S piece turned twice occupies, below the spawn row, the
\* four cells it occupies there in rotation 0
C13_Witness ==
  /\ current_piece.shape_index = 3
  /\ current_piece.rotation = 2
  /\ current_piece.y > 0
  /\ Cardinality(CellSet(current_piece)) = 4
  /\ CellSet(current_piece) = CellSet([current_piece EXCEPT !.rotation = 0])

\* C14: fall_speed is 0.5 s at the start of a session, changes only at a
\* lock, where it becomes max(0.08, fall_speed * 0.995), and so never
\* increases within a session and never is below 0.08 s
C14_FallSpeedSteps ==
  [][/\ RestartStep => fall_speed' = 500000
     /\ LockStep =>
          fall_speed' = IF (fall_speed * 995) \div 1000 > 80000
                        THEN (fall_speed * 995) \div 1000
                        ELSE 80000
     /\ (~LockStep /\ ~RestartStep) => fall_speed' = fall_speed
     /\ ~RestartStep => fall_speed' <= fall_speed
     /\ fall_speed' >= 80000 /\ fall_speed' <= 500000]_vars

\* C14 witness: a lock took fall_speed, 0.995 of which is below the floor,
\* to the floor
C14_Witness == nlocks = 1 /\ fall_speed = 80000 /\ score = 21900

\* the cells of the locked map that clear_rows does not delete
Remaining(filled) == {k \in LockedAtClear : k[2] \notin filled}

\* the row a remaining cell of row y is in after the clear, computed from
\* the map as it is before the clear
RowAfter(y, filled) == y + Cardinality({r \in filled : r > y})

\* C15: clear_rows loses and merges no cell: the map has 10 cells less per
\* cleared row, every column keeps the number of its remaining cells, every
\* remaining cell is found where the map before the clear puts it, and rows
\* keep their vertical order
C15_ClearKeepsCells ==
  Landing =>
    \A filled \in {FilledRows(LockedAtClear)}, after \in {ClearResult.locked} :
      /\ Cardinality(after) = Cardinality(LockedAtClear) - 10 * Cardinality(filled)
      /\ \A x \in 0 .. 9 :
           Cardinality({k \in after : k[1] = x})
             = Cardinality({k \in Remaining(filled) : k[1] = x})
      /\ \A k \in Remaining(filled) : <<k[1], RowAfter(k[2], filled)>> \in after
      /\ \A y1 \in -1 .. 19, y2 \in -1 .. 19 :
           (y1 < y2 /\ y1 \notin filled /\ y2 \notin filled)
             => RowAfter(y1, filled) < RowAfter(y2, filled)

\* C15 witness: a lock completes a row and two remaining cells lie one on
\* the other in a column above it, so the upper one is moved to the slot
\* the lower one is read from
C15_Witness ==
  /\ Landing
  /\ \E r \in FilledRows(LockedAtClear), k \in LockedAtClear :
       /\ k[2] + 1 < r
       /\ <<k[1], k[2] + 1>> \in LockedAtClear
       /\ k[2] \notin FilledRows(LockedAtClear)
       /\ (k[2] + 1) \notin FilledRows(LockedAtClear)

\* C16: one lock clears between 0 and 4 rows, and when no row is completed
\* clear_rows returns 0 and leaves the locked map as it is
C16_ClearedAtMostFour ==
  Landing =>
    /\ ClearResult.ret \in 0 .. 4
    /\ FilledRows(LockedAtClear) = {} =>
         (ClearResult.ret = 0 /\ ClearResult.locked = LockedAtClear)

\* C16 witness: a lock is about to clear four rows
C16_Witness ==
  /\ Landing
  /\ ClearResult.ret = 4
  /\ Cardinality(FilledRows(LockedAtClear)) = 4

\* C17: in every state, so after every lock and at the start of every
\* tick, every row 0..19 of the board has an empty cell
C17_NoFilledRow ==
  \A y \in 0 .. 19 : \E x \in 0 .. 9 : <<x, y>> \notin locked_positions

\* C17 witness: a lock completed one, two or three rows of the well board
\* and left cells of the rows above them
C17_Witness ==
  /\ nlocks = 1
  /\ score \in {400, 600, 800}
  /\ locked_positions # {}
  /\ pc = "gravity"

\* C18: a piece that is locked is in a valid placement and none of its
\* cells is an already locked cell, also when it is locked where it spawned
C18_LockOnEmptyCells ==
  Landing =>
    /\ CellSet(current_piece) \cap locked_positions = {}
    /\ PlacementOk(current_piece, locked_positions)

\* C19: a piece that is locked rests: one row further down it is not a
\* valid placement, also when a key moved it after the gravity step of the
\* tick marked the lock
C19_LockedPieceRests ==
  Landing => ~PlacementOk(OneDown(current_piece), locked_positions)

\* the step of Gravity
GravityStep == pc' = "events"

\* C20: no key decreases pivotY, a gravity tick increases pivotY by 1 or
\* marks the lock, which is carried out in that tick, and a piece, spawned
\* in row 0 and never below row 19, is locked by its 20th gravity tick
C20_PieceIsLocked ==
  [][/\ (LeftStep \/ RightStep \/ DownStep \/ UpStep \/ SpaceStep) =>
          current_piece'.y >= current_piece.y
     /\ GravityStep =>
          \/ current_piece'.y = current_piece.y + 1 /\ change_piece' = change_piece
          \/ current_piece' = current_piece /\ change_piece'
     /\ (change_piece /\ run /\ ~change_piece') => LockStep
     /\ run => (current_piece.y >= 0 /\ current_piece.y <= 19)
     /\ ticks <= 20]_vars

====
